---- MODULE Spec2Model ----
(***************************************************************************)
(* Model of the reconciliation endpoints of mtg_price_checker:             *)
(*   GET  /api/cron/check-prices  (src/app/api/cron/check-prices/route.ts) *)
(*   POST /api/cron/check-alerts  (src/app/api/cron/check-alerts/route.ts) *)
(* together with the storage they read and write (watchlist.json,          *)
(* subscriptions.json, notification-history.json, data/price-alerts.json)  *)
(* and the collaborators whose answers they consume (token exchange,       *)
(* marketplace search, push transport).                                    *)
(***************************************************************************)
EXTENDS Naturals, Integers, Sequences, FiniteSets, TLC

(***************************************************************************)
(* Bounds of the model.                                                    *)
(***************************************************************************)
MaxSubs == 2
NumPasses == 1
MaxStored == 1
MaxTime == 3
MaxListings == 3

Passes == 1..NumPasses

(***************************************************************************)
(* Value domains the inputs are drawn from.                                *)
(***************************************************************************)
\* price.value strings the marketplace answers with
PriceStrings == {"4.00", "5.00", "6.00"}
ListingIds == {"A", "B"}
ItemIds == {1, 2}
TargetPrices == {5}
Endpoints == {"e1", "e2"}
Secret == "s3cret"
AuthHeaders == {"absent", "Bearer s3cret", "Bearer wrong"}
CardNames == {"Lightning Bolt"}
None == "undefined"

NaN == -1

\* parseFloat on the strings of the model: the price strings above, and the
\* strings a request body may carry as targetPrice
ParseFloat(s) ==
  CASE s = "4.00" -> 4
    [] s = "5.00" -> 5
    [] s = "6.00" -> 6
    [] s = "5" -> 5
    [] OTHER -> NaN

\* JavaScript a < b and a <= b on numbers: false as soon as one side is NaN
JsLess(a, b) == a # NaN /\ b # NaN /\ a < b

JsLessEq(a, b) == a # NaN /\ b # NaN /\ a <= b

\* JSON values of the field targetPrice: a number, a string, null, or absent
Num(n) == [type |-> "number", n |-> n, s |-> ""]

Str(s) == [type |-> "string", n |-> 0, s |-> s]

Null == [type |-> "null", n |-> 0, s |-> ""]

Undefined == [type |-> "undefined", n |-> 0, s |-> ""]

\* the number a comparison (<, <=) converts the value to; on the strings of the
\* model Number(s) and parseFloat(s) agree
ToNumber(v) ==
  CASE v.type = "number" -> v.n
    [] v.type = "string" -> ParseFloat(v.s)
    [] v.type = "null" -> 0
    [] OTHER -> NaN

\* !v
Falsy(v) ==
  \/ v.type \in {"undefined", "null"}
  \/ v.type = "number" /\ v.n \in {0, NaN}
  \/ v.type = "string" /\ v.s = ""

Listings == [itemId : ListingIds, value : PriceStrings]

RECURSIVE SeqsUpTo(_, _)
SeqsUpTo(S, n) ==
  IF n = 0 THEN {<<>>}
  ELSE LET shorter == SeqsUpTo(S, n - 1)
       IN shorter \cup {Append(s, x) : s \in {t \in shorter : Len(t) = n - 1}, x \in S}

DistinctIds(l) == \A i, j \in 1..Len(l) : i # j => l[i].itemId # l[j].itemId

\* what data.itemSummaries || [] can be: listings with distinct item ids, in
\* any order of price.value (the marketplace sorts by price plus shipping)
ListingSeqs == {l \in SeqsUpTo(Listings, Cardinality(ListingIds)) : DistinctIds(l)}

\* result of one searchEbayBuyItNow call
SearchOutcomes ==
  {[kind |-> "tokenFail", listings |-> <<>>], [kind |-> "apiError", listings |-> <<>>]}
    \cup {[kind |-> "ok", listings |-> l] : l \in ListingSeqs}

NeverSearched == [kind |-> "never", listings |-> <<>>]

(***************************************************************************)
(* Stored documents.                                                       *)
(***************************************************************************)
ItemShapes ==
  {[scope |-> "any", setName |-> None, collectorNumber |-> None]}

WatchlistItem(k, name, target, shape) ==
  [id |-> k, cardName |-> name, targetPrice |-> Num(target), scope |-> shape.scope,
   setName |-> shape.setName, collectorNumber |-> shape.collectorNumber]

WatchlistItems ==
  {WatchlistItem(k, n, t, s) : k \in ItemIds, n \in CardNames, t \in TargetPrices, s \in ItemShapes}

\* watchlists as addWatchlistItem builds them: the k-th item created has its own id
Watchlists ==
  {w \in SeqsUpTo(WatchlistItems, Cardinality(ItemIds)) : \A k \in 1..Len(w) : w[k].id = k}

\* subscriptions.json as POST /api/subscribe builds it: endpoints in the order
\* they registered, the first one called e1
SubscriptionLists == {s \in SeqsUpTo(Endpoints, MaxSubs) : Len(s) > 0 => s[1] = "e1"}

\* data/price-alerts.json: alerts as the client synchronises them
PriceAlert(k, name, target, shape, triggered) ==
  [id |-> k, cardName |-> name, targetPrice |-> Num(target), scope |-> shape.scope,
   setName |-> shape.setName, collectorNumber |-> shape.collectorNumber,
   triggered |-> triggered]

PriceAlerts ==
  {PriceAlert(k, n, t, s, b) : k \in ItemIds, n \in CardNames, t \in TargetPrices,
                               s \in ItemShapes, b \in BOOLEAN}

AlertLists ==
  {a \in SeqsUpTo(PriceAlerts, Cardinality(ItemIds)) : \A k \in 1..Len(a) : a[k].id = k}

EmptyHistory == [k \in {} |-> [lastNotifiedListingId |-> "A"]]

File(exists, data) == [exists |-> exists, data |-> data]

VARIABLES
  env,       \* process.env: CRON_SECRET and the VAPID key pair
  files,     \* watchlist.json, subscriptions.json, notification-history.json,
             \* data/price-alerts.json
  pass,      \* the local state of each running GET /api/cron/check-prices
  alertPass, \* the local state of each running POST /api/cron/check-alerts
  audit,     \* observer comparing successive passes: when on, it keeps per
             \* watch item id the latest answer of the marketplace (seen) and
             \* the listing ids of the latest notifications (trail)
  redis,     \* the Upstash Redis keys 'watchlist' and 'subscriptions'
  http,      \* the latest request to a management endpoint and its answer
  token,     \* the module state of ebay-auth (cachedToken, tokenExpiry), the
             \* clock, the latest successful exchange and the latest call
  selection, \* an answer of the marketplace and the listing the reduce of
             \* the loop body selects in it
  tracker    \* the browser's localStorage entry of tracker-logic and the
             \* result of the latest checkPriceChanges call

vars == <<env, files, pass, alertPass, audit, redis, http, token, selection, tracker>>

\* what one iteration of the loop did: the answer of the search, the outcome,
\* the listing it selected, the record it found for the item, and the calls
\* of sendPushNotification and of webpush.sendNotification it made
Result(id, answer, outcome, listingId, prevId, pushCalls, pushSends) ==
  [id |-> id, answer |-> answer, outcome |-> outcome, listingId |-> listingId,
   prevId |-> prevId, pushCalls |-> pushCalls, pushSends |-> pushSends]

NoResult == Result(0, NeverSearched, "none", None, None, 0, 0)

NoResponse == [kind |-> "none", status |-> 0, checked |-> 0, notified |-> 0, errors |-> <<>>]

Idle ==
  [pc |-> "idle", authHeader |-> "absent", readErrors |-> {},
   watchlistItems |-> <<>>, subscriptions |-> <<>>, notificationHistory |-> EmptyHistory,
   idx |-> 1, checked |-> 0, notified |-> 0, errors |-> <<>>,
   outcomes |-> <<>>, last |-> NoResult, deliveries |-> <<>>, query |-> <<>>,
   concurrent |-> FALSE,
   writes |-> 0, response |-> NoResponse]

(***************************************************************************)
(* Helpers of the route, as the code computes them.                        *)
(***************************************************************************)
\* a variant that only requires some Authorization header to be present
UnauthorizedIfAbsent(cronSecret, authHeader) ==
  cronSecret # None /\ authHeader = "absent"

\* route.ts:181  cronSecret && authHeader !== `Bearer ${cronSecret}`
Unauthorized(cronSecret, authHeader) ==
  cronSecret # None /\ authHeader # ("Bearer " \o cronSecret)

\* getAllWatchlistItems / loadSubscriptions / loadNotificationHistory:
\* a missing file (ENOENT) and any other read or parse error both give `empty`
LoadJson(file, readOk, empty) ==
  IF file.exists /\ readOk THEN file.data ELSE empty

\* searchEbayBuyItNow, query construction (route.ts:91-97)
SearchQuery(cardName, setName, collectorNumber) ==
  <<cardName>> \o (IF setName # None THEN <<setName>> ELSE <<>>)
               \o (IF collectorNumber # None THEN <<collectorNumber>> ELSE <<>>)

\* listings.reduce((lowest, current) => ...) without an initial value
RECURSIVE ReduceLowest(_, _, _)
ReduceLowest(listings, k, lowest) ==
  IF k > Len(listings) THEN lowest
  ELSE ReduceLowest(listings, k + 1,
         IF JsLess(ParseFloat(listings[k].value), ParseFloat(lowest.value))
         THEN listings[k] ELSE lowest)

\* a variant that relies on the marketplace's sort=price and takes the first
\* listing of the answer
FirstListing(listings) == listings[1]

LowestListing(listings) == ReduceLowest(listings, 2, listings[1])

\* a variant without the early `continue` on an empty answer
NoListingsUnchecked(listings) == FALSE

\* route.ts:225  listings.length === 0
NoListings(listings) == Len(listings) = 0

\* route.ts:239  lowestPrice < item.targetPrice
Qualifies(lowestPrice, targetPrice) == JsLess(lowestPrice, ToNumber(targetPrice))

\* a variant that suppresses every item that has a record, whatever listing
\* the record names
AlreadyNotifiedAnyListing(history, historyKey, itemId) ==
  historyKey \in DOMAIN history

\* route.ts:244  history && history.lastNotifiedListingId === lowestListing.itemId
AlreadyNotified(history, historyKey, itemId) ==
  historyKey \in DOMAIN history /\ history[historyKey].lastNotifiedListingId = itemId

\* route.ts:262  notificationHistory[historyKey] = {...}
PutHistory(history, historyKey, itemId) ==
  [k \in DOMAIN history \cup {historyKey} |->
     IF k = historyKey THEN [lastNotifiedListingId |-> itemId] ELSE history[k]]

\* sendPushNotification: number of webpush.sendNotification calls made for
\* `n` subscriptions; without both VAPID keys the function returns at once
PushSends(vapid, n) == IF vapid THEN n ELSE 0

\* what the push service answers to webpush.sendNotification
PushAnswers == {"ok", "rejected", "expired"}

\* sendPushNotification (route.ts:132-169) for one subscription: what it logs
SendPushNotification(e, subscription) ==
  IF ~e.vapid THEN "notConfigured" ELSE e.push[subscription]

\* a variant of the fan-out that awaits the deliveries one by one and stops at
\* the first one that fails
SendUntilFailure(e, subscriptions) ==
  [i \in 1..Len(subscriptions) |->
     IF \E j \in 1..(i - 1) :
          SendPushNotification(e, subscriptions[j]) \in {"rejected", "expired"}
     THEN "notAttempted"
     ELSE SendPushNotification(e, subscriptions[i])]

\* route.ts:249-259  subscriptions.map(sendPushNotification) under
\* Promise.allSettled: the log of the deliveries, one entry per subscription
SendAll(e, subscriptions) ==
  [i \in 1..Len(subscriptions) |-> SendPushNotification(e, subscriptions[i])]

RecordedId(history, historyKey) ==
  IF historyKey \in DOMAIN history THEN history[historyKey].lastNotifiedListingId ELSE None

\* a variant in which a missing token is not an error (the search is skipped
\* and gives no listings)
SearchFailureTokenIgnored(outcome) ==
  IF outcome.kind = "apiError" THEN "eBay API error" ELSE None

\* the error a searchEbayBuyItNow call throws, None when it returns listings
\* (route.ts:86-88 and 119-123)
SearchFailure(outcome) ==
  IF outcome.kind = "tokenFail" THEN "Failed to get eBay token"
  ELSE IF outcome.kind = "apiError" THEN "eBay API error"
  ELSE None

\* the end of an iteration: what it did is logged
Done(st, r) == [st EXCEPT !.outcomes = Append(@, r.outcome), !.last = r]

\* a variant whose try/catch encloses the loop: the first error ends the pass
ItemErrorAborts(st, item, answer, cause) ==
  [Done([st EXCEPT !.errors = Append(@, [cardName |-> item.cardName, cause |-> cause])],
        Result(item.id, answer, "error", None, None, 0, 0))
     EXCEPT !.pc = "done", !.response = [NoResponse EXCEPT !.kind = "error", !.status = 500]]

\* a variant that counts an item as checked only when its search succeeded
ItemErrorUncounted(st, item, answer, cause) ==
  Done([st EXCEPT !.errors = Append(@, [cardName |-> item.cardName, cause |-> cause]),
                  !.checked = @ - 1],
       Result(item.id, answer, "error", None, None, 0, 0))

\* the catch block of the loop body (route.ts:271-275)
ItemError(st, item, answer, cause) ==
  Done([st EXCEPT !.errors = Append(@, [cardName |-> item.cardName, cause |-> cause])],
       Result(item.id, answer, "error", None, None, 0, 0))

\* one iteration of `for (const item of watchlistItems)` (route.ts:214-276)
\* on the answer `outcome` of the marketplace search
CheckItem(st, item, outcome, vapid) ==
  LET s1 == [st EXCEPT !.checked = @ + 1, !.idx = @ + 1]
  IN IF SearchFailure(outcome) # None
       THEN ItemError(s1, item, outcome, SearchFailure(outcome))
     ELSE IF NoListings(outcome.listings)
       THEN Done(s1, Result(item.id, outcome, "empty", None, None, 0, 0))
     ELSE IF Len(outcome.listings) = 0
       THEN ItemError(s1, item, outcome, "Reduce of empty array with no initial value")
     ELSE
       LET lowestListing == LowestListing(outcome.listings)
           lowestPrice == ParseFloat(lowestListing.value)
           n == Len(st.subscriptions)
           prev == RecordedId(st.notificationHistory, item.id)
       IN IF ~Qualifies(lowestPrice, item.targetPrice)
            THEN Done(s1, Result(item.id, outcome, "noMatch", lowestListing.itemId, prev, 0, 0))
          ELSE IF AlreadyNotified(st.notificationHistory, item.id, lowestListing.itemId)
            THEN Done(s1, Result(item.id, outcome, "suppressed", lowestListing.itemId, prev, 0, 0))
          ELSE Done([s1 EXCEPT
                       !.notificationHistory = PutHistory(@, item.id, lowestListing.itemId),
                       !.notified = @ + 1],
                    Result(item.id, outcome, "notified", lowestListing.itemId,
                           prev, n, PushSends(vapid, n)))

\* a variant of the start of GET without the early return for an empty
\* subscription list
StartPassWithoutSubscriptions(authHeader, w, s, h, readErrors) ==
  IF Len(w) = 0
    THEN [Idle EXCEPT !.pc = "done", !.authHeader = authHeader, !.readErrors = readErrors,
            !.response = [NoResponse EXCEPT !.kind = "emptyWatchlist", !.status = 200]]
  ELSE [Idle EXCEPT !.pc = "loop", !.authHeader = authHeader, !.readErrors = readErrors,
          !.watchlistItems = w, !.subscriptions = s, !.notificationHistory = h]

\* the state of GET after authentication and the three loads (route.ts:188-211)
StartPass(authHeader, w, s, h, readErrors) ==
  IF Len(w) = 0
    THEN [Idle EXCEPT !.pc = "done", !.authHeader = authHeader, !.readErrors = readErrors,
            !.response = [NoResponse EXCEPT !.kind = "emptyWatchlist", !.status = 200]]
  ELSE IF Len(s) = 0
    THEN [Idle EXCEPT !.pc = "done", !.authHeader = authHeader, !.readErrors = readErrors,
            !.response = [NoResponse EXCEPT !.kind = "noSubscriptions", !.status = 200]]
  ELSE [Idle EXCEPT !.pc = "loop", !.authHeader = authHeader, !.readErrors = readErrors,
          !.watchlistItems = w, !.subscriptions = s, !.notificationHistory = h]

\* the end of GET: saveNotificationHistory and the summary, or the outer catch
\* when the write throws (route.ts:278-297)
FinishPass(st, writeOk) ==
  [st EXCEPT !.pc = "done", !.writes = @ + 1,
     !.response = IF writeOk
                  THEN [kind |-> "summary", status |-> 200, checked |-> st.checked,
                        notified |-> st.notified, errors |-> st.errors]
                  ELSE [NoResponse EXCEPT !.kind = "error", !.status = 500]]

\* a variant that also drops the last stored subscription (removal of an
\* expired endpoint) when it writes the history
SaveHistoryAndPrune(f, history) ==
  [f EXCEPT !.history = File(TRUE, history),
            !.subscriptions = File(TRUE, SubSeq(@.data, 1, Len(@.data) - 1))]

\* saveNotificationHistory (route.ts:59-61): the documents after the write
SaveNotificationHistory(f, history) ==
  [f EXCEPT !.history = File(TRUE, history)]

\* a variant of the loop body that saves the history after each item
SavePerItem(f, history) == [f EXCEPT !.history = File(TRUE, history)]

\* route.ts:255-259: the loop body updates the map in memory only; the
\* documents after an iteration are the documents before it
KeepInMemory(f, history) == f

\* the observer's bookkeeping after an iteration with result r
AuditOff ==
  [on |-> FALSE, seen |-> [k \in ItemIds |-> NeverSearched],
   trail |-> [k \in ItemIds |-> <<None, None, None>>],
   marked |-> {}, answer |-> NeverSearched, skipped |-> FALSE]

Observe(a, r) ==
  [a EXCEPT !.seen[r.id] = r.answer,
            !.trail[r.id] = IF r.outcome = "notified" THEN <<@[2], @[3], r.listingId>> ELSE @]

(***************************************************************************)
(* Helpers of the check-alerts route.                                      *)
(***************************************************************************)
AlertResponse(kind, status, checked, triggered, errors) ==
  [kind |-> kind, status |-> status, checked |-> checked, triggered |-> triggered,
   errors |-> errors]

AlertIdle ==
  [pc |-> "idle", authHeader |-> "absent", alerts |-> <<>>, idx |-> 1,
   checked |-> 0, triggered |-> 0, errors |-> <<>>, outcomes |-> <<>>, query |-> <<>>,
   response |-> AlertResponse("none", 0, 0, 0, <<>>)]

\* getActiveAlerts (alert-storage): the stored alerts that are not triggered
RECURSIVE ActiveAlerts(_)
ActiveAlerts(alerts) ==
  IF Len(alerts) = 0 THEN <<>>
  ELSE (IF alerts[1].triggered THEN <<>> ELSE <<alerts[1]>>) \o ActiveAlerts(Tail(alerts))

\* checkAlert (check-alerts/route.ts:72-84): the index of the first listing
\* whose price parses and is at most targetPrice, 0 when there is none
RECURSIVE FirstMatch(_, _, _)
FirstMatch(listings, k, targetPrice) ==
  IF k > Len(listings) THEN 0
  ELSE IF /\ ParseFloat(listings[k].value) # NaN
          /\ JsLessEq(ParseFloat(listings[k].value), ToNumber(targetPrice))
    THEN k
  ELSE FirstMatch(listings, k + 1, targetPrice)

\* markAlertTriggered (alert-storage): the stored alerts with the first alert
\* of that id marked; unchanged when there is none
MarkTriggered(alerts, alertId) ==
  [i \in DOMAIN alerts |->
     IF alerts[i].id = alertId /\ \A j \in 1..(i - 1) : alerts[j].id # alertId
     THEN [alerts[i] EXCEPT !.triggered = TRUE]
     ELSE alerts[i]]

\* the state of POST after authentication and getActiveAlerts (route.ts:128-141)
StartAlertPass(authHeader, active) ==
  IF Len(active) = 0
  THEN [AlertIdle EXCEPT !.pc = "done", !.authHeader = authHeader,
          !.response = AlertResponse("noAlerts", 200, 0, 0, <<>>)]
  ELSE [AlertIdle EXCEPT !.pc = "loop", !.authHeader = authHeader, !.alerts = active]

AlertError(st, alert, cause) ==
  [st EXCEPT !.errors = Append(@, [alertId |-> alert.id, cause |-> cause]),
             !.outcomes = Append(@, "error")]

\* one iteration of `for (const alert of alerts)` (route.ts:144-172): the new
\* local state and the new content of the alerts file; `stored` is what
\* markAlertTriggered reads back, `writeOk` whether saveAlerts succeeds
CheckAlert(st, alert, outcome, file, stored, writeOk) ==
  LET s1 == [st EXCEPT !.checked = @ + 1, !.idx = @ + 1]
      m == FirstMatch(outcome.listings, 1, alert.targetPrice)
      found == \E i \in 1..Len(stored) : stored[i].id = alert.id
  IN IF SearchFailure(outcome) # None
       THEN [st |-> AlertError(s1, alert, SearchFailure(outcome)), file |-> file]
     ELSE IF m = 0
       THEN [st |-> [s1 EXCEPT !.outcomes = Append(@, "noMatch")], file |-> file]
     ELSE IF found /\ ~writeOk
       THEN [st |-> AlertError(s1, alert, "saveAlerts failed"), file |-> file]
     ELSE [st |-> [s1 EXCEPT !.triggered = @ + 1, !.outcomes = Append(@, "triggered")],
           file |-> IF found THEN File(TRUE, MarkTriggered(stored, alert.id)) ELSE file]

\* markAlertTriggered found the alert in what it read and saved it as
\* triggered
Marked(stored, alertId, st) ==
  /\ st.outcomes[Len(st.outcomes)] = "triggered"
  /\ \E i \in 1..Len(stored) : stored[i].id = alertId

(***************************************************************************)
(* Helpers of the management endpoints.                                    *)
(***************************************************************************)
\* bodies of POST /api/alerts/sync: the client's alerts (each has an id, a
\* scope and a createdAt), some of them with a target price of 0
SyncAlerts ==
  LET alerts == {a \in PriceAlerts : a.id = 1}
  IN alerts \cup {[a EXCEPT !.targetPrice = Num(0)] : a \in alerts}

\* status/route.ts:56-62  the alerts of the body that pass the filter
RECURSIVE ValidAlerts(_)
ValidAlerts(alerts) ==
  IF Len(alerts) = 0 THEN <<>>
  ELSE (IF alerts[1].cardName # "" /\ ~Falsy(alerts[1].targetPrice) /\ alerts[1].scope # ""
        THEN <<alerts[1]>> ELSE <<>>) \o ValidAlerts(Tail(alerts))

EmptyRedis == [watchlist |-> <<>>, subscriptions |-> <<>>]

Request(route, body, status) == [route |-> route, body |-> body, status |-> status]

NoRequest == Request("none", [none |-> TRUE], 0)

\* POST /api/subscribe on subscriptions.json (part_002:36-40): the new record
\* is pushed, whatever is stored
PushSubscription(subscriptions, subscription) == Append(subscriptions, subscription)

\* POST /api/subscribe on Redis (part_001:42-58): the record with the same
\* endpoint is replaced, or else the new one is pushed
UpsertSubscription(subscriptions, subscription) ==
  IF \E i \in 1..Len(subscriptions) : subscriptions[i] = subscription
  THEN subscriptions
  ELSE Append(subscriptions, subscription)

\* request bodies of the endpoints that create a watch item or validate an alert
BodyPrices == {Undefined, Num(5), Num(0), Num(-2), Str("5"), Str("abc")}
CardIds == {"c1"}
SetNames == {"LEA"}
CollectorNumbers == {"161"}

WatchlistBody(cardName, cardId, targetPrice, scope, setName, collectorNumber) ==
  [cardName |-> cardName, cardId |-> cardId, targetPrice |-> targetPrice,
   scope |-> scope, setName |-> setName, collectorNumber |-> collectorNumber]

\* every combination of price, scope, set and number for a named card, and one
\* body without card name and one without card id
WatchlistBodies ==
  {WatchlistBody(n, c, t, sc, sn, cn) :
     n \in CardNames, c \in CardIds, t \in BodyPrices,
     sc \in {None, "any", "specific"}, sn \in {None} \cup SetNames,
     cn \in {None} \cup CollectorNumbers}
  \cup {WatchlistBody(None, c, Num(5), "any", None, None) : c \in CardIds}
  \cup {WatchlistBody(n, None, Num(5), "any", None, None) : n \in CardNames}

\* bodies of POST /api/watchlist/save with a valid price and any scope, with
\* or without a set and a number
ScopedItemBodies == {b \in WatchlistBodies : b.targetPrice = Num(5)}

\* bodies of POST /api/alerts/sync whose alerts have any scope, with or
\* without a set and a number
ScopedBodies ==
  {<<>>} \cup
  {<<[PriceAlert(1, n, t, [scope |-> "any", setName |-> None, collectorNumber |-> None],
                 FALSE)
        EXCEPT !.scope = sc, !.setName = sn, !.collectorNumber = cn]>> :
     n \in CardNames, t \in TargetPrices, sc \in {"any", "specific"},
     sn \in {None} \cup SetNames, cn \in {None} \cup CollectorNumbers}

\* !targetPrice || targetPrice <= 0
BadPrice(targetPrice) ==
  Falsy(targetPrice) \/ JsLessEq(ToNumber(targetPrice), 0)

\* POST /api/watchlist/save, validation (save/route.ts:13-47): the error, or None
SaveValidation(body) ==
  IF body.cardName = None THEN "Card name is required"
  ELSE IF body.cardId = None THEN "Card ID is required"
  ELSE IF BadPrice(body.targetPrice) THEN "Target price must be greater than 0"
  ELSE IF body.scope \notin {"specific", "any"} THEN "Scope must be specific or any"
  ELSE IF body.scope = "specific" /\ (body.setName = None \/ body.collectorNumber = None)
    THEN "Set name and collector number are required for specific scope"
  ELSE None

\* POST /api/watchlist, validation (watchlist/route.ts:48-61)
PostValidation(body) ==
  IF body.cardName = None THEN "Card name is required"
  ELSE IF BadPrice(body.targetPrice) THEN "Target price must be greater than 0"
  ELSE None

\* saveAlert, validation (price-alerts.ts:26-36)
AlertValidation(alertData) ==
  IF alertData.cardName = None THEN "Card name is required"
  ELSE IF BadPrice(alertData.targetPrice) THEN "Target price must be greater than 0"
  ELSE IF /\ alertData.scope = "specific"
          /\ (alertData.setName = None \/ alertData.collectorNumber = None)
    THEN "Set name and collector number are required for specific version alerts"
  ELSE None

\* the id of a new item: one that no stored item has
NextId(items) ==
  CHOOSE k \in ItemIds :
    /\ \A i \in 1..Len(items) : items[i].id # k
    /\ \A j \in ItemIds : (\A i \in 1..Len(items) : items[i].id # j) => k <= j

\* a variant that stores the set and the number of the body whatever the scope
NewWatchlistItemUnstripped(body, id) ==
  [id |-> id, cardName |-> body.cardName, targetPrice |-> body.targetPrice,
   scope |-> body.scope, setName |-> body.setName,
   collectorNumber |-> body.collectorNumber]

\* the item POST /api/watchlist/save hands to addWatchlistItem
\* (save/route.ts:50-57, watchlist-storage addWatchlistItem): targetPrice is
\* stored as it came
NewWatchlistItem(body, id) ==
  [id |-> id, cardName |-> body.cardName, targetPrice |-> body.targetPrice,
   scope |-> body.scope,
   setName |-> IF body.scope = "specific" THEN body.setName ELSE None,
   collectorNumber |-> IF body.scope = "specific" THEN body.collectorNumber ELSE None]

\* parseFloat(targetPrice) as Redis stores it: NaN is serialised as null
ParseFloatValue(v) ==
  LET x == IF v.type = "number" THEN v.n
           ELSE IF v.type = "string" THEN ParseFloat(v.s)
           ELSE NaN
  IN IF x = NaN THEN Null ELSE Num(x)

\* the item POST /api/watchlist stores in Redis (watchlist/route.ts:66-73)
NewRedisItem(body, id) ==
  [id |-> id, cardName |-> body.cardName,
   targetPrice |-> ParseFloatValue(body.targetPrice), setName |-> body.setName]

\* watchlist.filter(item => item.id !== id)
RECURSIVE FilterOut(_, _)
FilterOut(items, id) ==
  IF Len(items) = 0 THEN <<>>
  ELSE (IF items[1].id # id THEN <<items[1]>> ELSE <<>>) \o FilterOut(Tail(items), id)

(***************************************************************************)
(* Answers of the marketplace for the selection of the cheapest listing:   *)
(* up to MaxListings listings with distinct ids, in any order of price.    *)
(***************************************************************************)
NoListing == [itemId |-> None, value |-> None]

AnswerIds == {"A", "B", "C", "D"}

Answers ==
  {l \in SeqsUpTo([itemId : AnswerIds, value : PriceStrings], MaxListings) :
     Len(l) > 0 /\ DistinctIds(l)}

(***************************************************************************)
(* Helpers of tracker-logic.                                               *)
(***************************************************************************)
NoCheck == [cardId |-> None, newPrice |-> 0, alert |-> FALSE]

\* prices of the client-side tracker, in cents (1.00 is 100)
TrackerPrices == {0, 80, 90, 99, 100, 110}

\* the pairs (lastSavedPrice, newPrice) of an exact 10 % drop for which the
\* double ((lastSavedPrice - newPrice) / lastSavedPrice) * 100 is below 10:
\* ((1.00 - 0.90) / 1.00) * 100 is 9.999999999999998, while
\* ((1.10 - 0.99) / 1.10) * 100 is 10.000000000000007
RoundedBelowTen == {<<100, 90>>}

\* percentageChange >= 10 (tracker-logic.ts:87-90) in double arithmetic: off
\* the boundary the doubles order as the exact values do; a division by a
\* lastSavedPrice of 0 gives NaN or -Infinity, which are not >= 10
PercentageAtLeastTen(lastSavedPrice, newPrice) ==
  IF lastSavedPrice = 0 THEN FALSE
  ELSE IF 10 * (lastSavedPrice - newPrice) = lastSavedPrice
    THEN <<lastSavedPrice, newPrice>> \notin RoundedBelowTen
  ELSE 10 * (lastSavedPrice - newPrice) > lastSavedPrice

(***************************************************************************)
(* Helpers of ebay-auth.  Times are in seconds; the clock starts at 1, so  *)
(* that the initial tokenExpiry 0 is in the past.                          *)
(***************************************************************************)
SafetyBuffer == 60

\* the token endpoint answers with a token and its lifetime (expires_in, around
\* the safety buffer), or refuses
ExchangeOutcomes ==
  [ok : {TRUE}, token : {"t1", "t2"}, expiresIn : {60, 61, 62}]
    \cup {[ok |-> FALSE, token |-> None, expiresIn |-> 0]}

\* what a call did: whether it performed an exchange, whether it gave a token
\* to its caller, and which; turn alternates at each call
Call(fn, exchanged, ok, tok, turn) ==
  [fn |-> fn, exchanged |-> exchanged, ok |-> ok, token |-> tok, turn |-> turn]

NoCall == Call("none", FALSE, FALSE, None, 0)

\* ebay-auth.ts:80  cachedToken && tokenExpiry > now
CacheValid(t) == t.cachedToken # None /\ t.tokenExpiry > t.now

\* ebay-auth.ts:109-110  the cache after a successful exchange
StoreToken(t, outcome) ==
  [t EXCEPT !.cachedToken = outcome.token,
            !.tokenExpiry = t.now + (outcome.expiresIn - SafetyBuffer)]

\* a variant whose catch block leaves the cache as it is
KeepCache(t) == t

\* ebay-auth.ts:114-116  the cache after a failed exchange
ClearCache(t) == [t EXCEPT !.cachedToken = None, !.tokenExpiry = 0]

\* the latest successful exchange, whoever performed it
Issued(t, outcome) ==
  IF outcome.ok THEN [t EXCEPT !.issuedAt = t.now, !.expiresIn = outcome.expiresIn] ELSE t

(***************************************************************************)
(* Initial states: a deployment with its environment configured, the       *)
(* documents already stored (or not yet), and no notification history.     *)
(***************************************************************************)
\* push says, for each endpoint, what the push service answers to a delivery
Environments ==
  [CRON_SECRET : {None, Secret}, vapid : BOOLEAN, push : {[e \in Endpoints |-> "ok"]}]

\* deployments whose subscriptions' endpoints may reject a delivery or be gone
DeliveryEnvironments ==
  [CRON_SECRET : {None}, vapid : BOOLEAN, push : [Endpoints -> PushAnswers]]

InitWith(environments, watchlists, subscriptionLists, alertLists, observing) ==
  /\ env \in environments
  /\ \E w \in watchlists, s \in subscriptionLists, a \in alertLists :
       files = [watchlist |-> File(Len(w) > 0, w),
                subscriptions |-> File(Len(s) > 0, s),
                history |-> File(FALSE, EmptyHistory),
                alerts |-> File(Len(a) > 0, a)]
  /\ pass = [p \in Passes |-> Idle]
  /\ alertPass = [p \in Passes |-> AlertIdle]
  /\ audit = [AuditOff EXCEPT !.on = observing]
  /\ redis = EmptyRedis
  /\ http = NoRequest
  /\ token = [cachedToken |-> None, tokenExpiry |-> 0, now |-> 1,
              issuedAt |-> 0, expiresIn |-> 0, last |-> NoCall]
  /\ selection = [listings |-> <<>>, lowest |-> NoListing]
  /\ tracker = [watchlist |-> <<>>, last |-> NoCheck]

Init == InitWith(Environments, Watchlists, SubscriptionLists, {<<>>}, FALSE)

(***************************************************************************)
(* GET /api/cron/check-prices                                              *)
(***************************************************************************)
\* the request arrives: authentication, the three loads, the early returns;
\* `concurrent` notes that another invocation is between its loads and its
\* write at that moment
CheckPricesStart(p) ==
  /\ pass[p].pc = "idle"
  /\ \E authHeader \in AuthHeaders, okW, okS, okH \in BOOLEAN :
       /\ files.watchlist.exists \/ okW
       /\ files.subscriptions.exists \/ okS
       /\ files.history.exists \/ okH
       /\ pass' = [pass EXCEPT ![p] =
            IF Unauthorized(env.CRON_SECRET, authHeader)
            THEN [Idle EXCEPT !.pc = "done", !.authHeader = authHeader,
                    !.response = [NoResponse EXCEPT !.kind = "unauthorized", !.status = 401]]
            ELSE [StartPass(authHeader,
                    LoadJson(files.watchlist, okW, <<>>),
                    LoadJson(files.subscriptions, okS, <<>>),
                    LoadJson(files.history, okH, EmptyHistory),
                    {f \in {"watchlist", "subscriptions", "history"} :
                       \/ f = "watchlist" /\ ~okW
                       \/ f = "subscriptions" /\ ~okS
                       \/ f = "history" /\ ~okH})
                  EXCEPT !.concurrent =
                    \E q \in DOMAIN pass \ {p} : pass[q].pc = "loop"]]
  \* observed: a pass has returned because no subscription is stored
  /\ audit' = IF pass'[p].response.kind = "noSubscriptions"
                  /\ Len(files.subscriptions.data) = 0
               THEN [audit EXCEPT !.skipped = TRUE] ELSE audit
  /\ UNCHANGED <<env, files, alertPass, redis, http, token, selection, tracker>>

\* the scheduler starts an invocation when the previous one has returned
CheckPricesRequest(p) ==
  /\ \A q \in Passes : pass[q].pc = "idle"
  /\ CheckPricesStart(p)

\* one iteration of the loop over the watchlist
CheckPricesItem(p) ==
  /\ pass[p].pc = "loop"
  /\ pass[p].idx <= Len(pass[p].watchlistItems)
  /\ \E outcome \in SearchOutcomes :
       LET item == pass[p].watchlistItems[pass[p].idx]
           new == CheckItem(pass[p], item, outcome, env.vapid)
           r == new.last
       IN /\ pass' = [pass EXCEPT ![p] =
               [new EXCEPT !.deliveries = IF r.outcome = "notified"
                                          THEN SendAll(env, pass[p].subscriptions)
                                          ELSE @,
                           \* route.ts:219-223
                           !.query = SearchQuery(item.cardName, item.setName,
                                                 item.collectorNumber)]]
          /\ files' = KeepInMemory(files, new.notificationHistory)
          /\ audit' = IF audit.on THEN Observe(audit, r) ELSE audit
  /\ UNCHANGED <<env, alertPass, redis, http, token, selection, tracker>>

\* after the loop: the single write of the history and the response
CheckPricesSave(p) ==
  /\ pass[p].pc = "loop"
  /\ pass[p].idx > Len(pass[p].watchlistItems)
  /\ \E writeOk \in BOOLEAN :
       /\ pass' = [pass EXCEPT ![p] = FinishPass(pass[p], writeOk)]
       /\ files' = IF writeOk
                   THEN SaveNotificationHistory(files, pass[p].notificationHistory)
                   ELSE files
  /\ UNCHANGED <<env, alertPass, audit, redis, http, token, selection, tracker>>

\* the response has been delivered; the invocation is over
CheckPricesReturn(p) ==
  /\ pass[p].pc = "done"
  /\ pass' = [pass EXCEPT ![p] = Idle]
  /\ UNCHANGED <<env, files, alertPass, audit, redis, http, token, selection, tracker>>

(***************************************************************************)
(* POST /api/cron/check-alerts                                             *)
(***************************************************************************)
\* the request arrives: authentication, getActiveAlerts, the early return
CheckAlertsRequest(p) ==
  /\ \A q \in Passes : alertPass[q].pc = "idle"
  /\ \E authHeader \in AuthHeaders, okA \in BOOLEAN :
       /\ files.alerts.exists \/ okA
       /\ alertPass' = [alertPass EXCEPT ![p] =
            IF Unauthorized(env.CRON_SECRET, authHeader)
            THEN [AlertIdle EXCEPT !.pc = "done", !.authHeader = authHeader,
                    !.response = AlertResponse("unauthorized", 401, 0, 0, <<>>)]
            ELSE StartAlertPass(authHeader,
                   ActiveAlerts(LoadJson(files.alerts, okA, <<>>)))]
  /\ UNCHANGED <<env, files, pass, audit, redis, http, token, selection, tracker>>

\* one iteration of the loop over the active alerts
CheckAlertsItem(p) ==
  /\ alertPass[p].pc = "loop"
  /\ alertPass[p].idx <= Len(alertPass[p].alerts)
  /\ \E outcome \in SearchOutcomes, okA, writeOk \in BOOLEAN :
       LET alert == alertPass[p].alerts[alertPass[p].idx]
           new == CheckAlert(alertPass[p], alert, outcome, files.alerts,
                             LoadJson(files.alerts, okA, <<>>), writeOk)
       IN /\ files.alerts.exists \/ okA
          \* markAlertTriggered reads and writes only for an alert that matched
          /\ new.st.outcomes[Len(new.st.outcomes)] = "noMatch" => okA /\ writeOk
          /\ SearchFailure(outcome) # None => okA /\ writeOk
          \* and writes only when it read the alert back
          /\ ~okA => writeOk
          \* check-alerts/route.ts:149-153
          /\ alertPass' = [alertPass EXCEPT ![p] =
               [new.st EXCEPT !.query =
                  SearchQuery(alert.cardName,
                              IF alert.scope = "specific" THEN alert.setName ELSE None,
                              IF alert.scope = "specific" THEN alert.collectorNumber
                              ELSE None)]]
          /\ files' = [files EXCEPT !.alerts = new.file]
          \* the observer notes the alerts that markAlertTriggered has marked
          \* and, when on, what the search of this iteration answered
          /\ audit' = [audit EXCEPT
                         !.marked = IF Marked(LoadJson(files.alerts, okA, <<>>), alert.id, new.st)
                                    THEN @ \cup {alert.id} ELSE @,
                         !.answer = IF audit.on THEN outcome ELSE @]
  /\ UNCHANGED <<env, pass, redis, http, token, selection, tracker>>

\* after the loop: the response
CheckAlertsRespond(p) ==
  /\ alertPass[p].pc = "loop"
  /\ alertPass[p].idx > Len(alertPass[p].alerts)
  /\ alertPass' = [alertPass EXCEPT ![p] =
       [@ EXCEPT !.pc = "done",
                 !.response = AlertResponse("completed", 200, @.checked, @.triggered, @.errors)]]
  /\ UNCHANGED <<env, files, pass, audit, redis, http, token, selection, tracker>>

\* the response has been delivered; the invocation is over
CheckAlertsReturn(p) ==
  /\ alertPass[p].pc = "done"
  /\ alertPass' = [alertPass EXCEPT ![p] = AlertIdle]
  /\ UNCHANGED <<env, files, pass, audit, redis, http, token, selection, tracker>>

(***************************************************************************)
(* POST /api/subscribe, in its two versions: the one that writes           *)
(* subscriptions.json (part_002) and the one that writes Redis (part_001). *)
(* A subscription is represented by its endpoint.                          *)
(***************************************************************************)
SubscribePost ==
  /\ Len(files.subscriptions.data) < MaxSubs
  /\ \E subscription \in {None} \cup Endpoints, okS, writeOk \in BOOLEAN :
       LET body == [subscription |-> subscription]
           stored == LoadJson(files.subscriptions, okS, <<>>)
       IN /\ files.subscriptions.exists \/ okS
          /\ subscription = None => okS /\ writeOk
          /\ IF subscription = None
               THEN /\ http' = Request("subscribe", body, 400)
                    /\ files' = files
             ELSE IF writeOk
               THEN /\ http' = Request("subscribe", body, 200)
                    /\ files' = [files EXCEPT !.subscriptions =
                                    File(TRUE, PushSubscription(stored, subscription))]
             ELSE /\ http' = Request("subscribe", body, 500)
                  /\ files' = files
  /\ UNCHANGED <<env, pass, alertPass, audit, redis, token, selection, tracker>>

SubscribePostRedis ==
  /\ \E subscription \in {None} \cup Endpoints, redisOk \in BOOLEAN :
       LET body == [subscription |-> subscription] IN
       /\ subscription = None => redisOk
       /\ IF subscription = None
            THEN /\ http' = Request("subscribe-redis", body, 400)
                 /\ redis' = redis
          ELSE IF redisOk
            THEN /\ http' = Request("subscribe-redis", body, 200)
                 /\ redis' = [redis EXCEPT !.subscriptions =
                                 UpsertSubscription(@, subscription)]
          ELSE /\ http' = Request("subscribe-redis", body, 500)
               /\ redis' = redis
  /\ UNCHANGED <<env, files, pass, alertPass, audit, token, selection, tracker>>

(***************************************************************************)
(* The endpoints that create and delete watch items:                       *)
(* POST /api/watchlist/save (watchlist.json), POST and DELETE              *)
(* /api/watchlist (Redis), and the server action saveAlert.                *)
(***************************************************************************)
WatchlistSavePostWith(bodies) ==
  /\ Len(files.watchlist.data) < MaxStored
  /\ \E body \in bodies, okW, writeOk \in BOOLEAN :
       LET stored == LoadJson(files.watchlist, okW, <<>>) IN
       /\ files.watchlist.exists \/ okW
       /\ SaveValidation(body) # None => okW /\ writeOk
       /\ IF SaveValidation(body) # None
            THEN /\ http' = Request("watchlist/save", body, 400)
                 /\ files' = files
          ELSE IF writeOk
            THEN /\ http' = Request("watchlist/save", body, 200)
                 /\ files' = [files EXCEPT !.watchlist =
                       File(TRUE, Append(stored, NewWatchlistItem(body, NextId(stored))))]
          ELSE /\ http' = Request("watchlist/save", body, 500)
               /\ files' = files
  /\ UNCHANGED <<env, pass, alertPass, audit, redis, token, selection, tracker>>

WatchlistSavePost == WatchlistSavePostWith(WatchlistBodies)

WatchlistPost ==
  /\ Len(redis.watchlist) < MaxStored
  /\ \E body \in WatchlistBodies, redisOk \in BOOLEAN :
       /\ PostValidation(body) # None => redisOk
       /\ IF PostValidation(body) # None
            THEN /\ http' = Request("watchlist", body, 400)
                 /\ redis' = redis
          ELSE IF redisOk
            THEN /\ http' = Request("watchlist", body, 200)
                 /\ redis' = [redis EXCEPT !.watchlist =
                       Append(@, NewRedisItem(body, NextId(@)))]
          ELSE /\ http' = Request("watchlist", body, 500)
               /\ redis' = redis
  /\ UNCHANGED <<env, files, pass, alertPass, audit, token, selection, tracker>>

WatchlistDelete ==
  /\ \E id \in {0} \cup ItemIds, redisOk \in BOOLEAN :
       LET body == [id |-> id]
           filteredWatchlist == FilterOut(redis.watchlist, id)
       IN /\ id = 0 => redisOk
          /\ IF id = 0
               THEN /\ http' = Request("watchlist/delete", body, 400)
                    /\ redis' = redis
             ELSE IF ~redisOk
               THEN /\ http' = Request("watchlist/delete", body, 500)
                    /\ redis' = redis
             ELSE IF Len(filteredWatchlist) = Len(redis.watchlist)
               THEN /\ http' = Request("watchlist/delete", body, 404)
                    /\ redis' = redis
             ELSE /\ http' = Request("watchlist/delete", body, 200)
                  /\ redis' = [redis EXCEPT !.watchlist = filteredWatchlist]
  /\ UNCHANGED <<env, files, pass, alertPass, audit, token, selection, tracker>>

\* the server action only validates: it stores nothing
SaveAlert ==
  /\ \E alertData \in WatchlistBodies :
       http' = Request("saveAlert", alertData,
                       IF AlertValidation(alertData) # None THEN 400 ELSE 200)
  /\ UNCHANGED <<env, files, pass, alertPass, audit, redis, token, selection, tracker>>

(***************************************************************************)
(* POST /api/alerts/sync: the client's list replaces the stored one.       *)
(***************************************************************************)
AlertsSyncWith(bodies) ==
  /\ \E body \in bodies, writeOk \in BOOLEAN :
       /\ files' = IF writeOk
                    THEN [files EXCEPT !.alerts = File(TRUE, ValidAlerts(body))]
                    ELSE files
       /\ http' = Request("alerts/sync", [alerts |-> body], IF writeOk THEN 200 ELSE 500)
  /\ UNCHANGED <<env, pass, alertPass, audit, redis, token, selection, tracker>>

(***************************************************************************)
(* The selection of the listing to evaluate, on an answer of the           *)
(* marketplace (the reduce of the loop body, route.ts:229-233).            *)
(***************************************************************************)
SelectLowest ==
  /\ Len(selection.listings) = 0
  /\ \E listings \in Answers :
       selection' = [listings |-> listings, lowest |-> LowestListing(listings)]
  /\ UNCHANGED <<env, files, pass, alertPass, audit, redis, http, token, tracker>>

AlertsSync == AlertsSyncWith(SeqsUpTo(SyncAlerts, MaxStored))

(***************************************************************************)
(* ebay-auth: getEbayAccessToken (with the cache), getEbayToken (the one   *)
(* the searches of the passes call), and the passing of time.              *)
(***************************************************************************)
GetEbayAccessToken ==
  /\ IF CacheValid(token)
       THEN token' = [token EXCEPT !.last =
              Call("getEbayAccessToken", FALSE, TRUE, token.cachedToken, 1 - @.turn)]
     ELSE \E outcome \in ExchangeOutcomes :
            token' = [(IF outcome.ok THEN Issued(StoreToken(token, outcome), outcome)
                       ELSE ClearCache(token))
                        EXCEPT !.last = Call("getEbayAccessToken", TRUE, outcome.ok,
                                             outcome.token, 1 - @.turn)]
  /\ UNCHANGED <<env, files, pass, alertPass, audit, redis, http, selection, tracker>>

GetEbayToken ==
  /\ \E outcome \in ExchangeOutcomes :
       token' = [Issued(token, outcome) EXCEPT !.last =
                   Call("getEbayToken", TRUE, outcome.ok, outcome.token, 1 - @.turn)]
  /\ UNCHANGED <<env, files, pass, alertPass, audit, redis, http, selection, tracker>>

Tick ==
  /\ token.now < MaxTime
  /\ token' = [token EXCEPT !.now = @ + 1]
  /\ UNCHANGED <<env, files, pass, alertPass, audit, redis, http, selection, tracker>>

(***************************************************************************)
(* The client-side tracker (tracker-logic.ts): the watchlist in            *)
(* LocalStorage, card id -> last_saved_price.                              *)
(***************************************************************************)
\* saveToWatchlist: the card is saved or updated; an error of LocalStorage
\* (quota) is caught and nothing is stored
SaveToWatchlist ==
  /\ \E cardId \in {"c1", "c2"}, currentPrice \in TrackerPrices, stored \in BOOLEAN :
       tracker' = [tracker EXCEPT !.watchlist =
         IF stored
         THEN [c \in DOMAIN @ \cup {cardId} |-> IF c = cardId THEN currentPrice ELSE @[c]]
         ELSE @]
  /\ UNCHANGED <<env, files, pass, alertPass, audit, redis, http, token, selection>>

\* checkPriceChanges: null for a card that is not in the watchlist, or else
\* the alert when percentageChange >= 10; nothing is written
CheckPriceChanges ==
  /\ \E cardId \in {"c1", "c2"}, newPrice \in TrackerPrices :
       tracker' = [tracker EXCEPT !.last =
         [cardId |-> cardId, newPrice |-> newPrice,
          alert |-> /\ cardId \in DOMAIN tracker.watchlist
                    /\ PercentageAtLeastTen(tracker.watchlist[cardId], newPrice)]]
  /\ UNCHANGED <<env, files, pass, alertPass, audit, redis, http, token, selection>>

(***************************************************************************)
(* Specifications.                                                         *)
(***************************************************************************)
Next ==
  \E p \in Passes :
    \/ CheckPricesRequest(p)
    \/ CheckPricesItem(p)
    \/ CheckPricesSave(p)
    \/ CheckPricesReturn(p)

\* the check-prices endpoint, triggered again and again, one pass at a time
Spec == Init /\ [][Next]_vars

\* the same with the observer on, on watchlists of one item and subscriptions
\* of distinct endpoints
InitRepeat ==
  InitWith(Environments, {w \in Watchlists : Len(w) = 1},
           {s \in SubscriptionLists :
              Len(s) > 0 /\ \A i, j \in 1..Len(s) : i # j => s[i] # s[j]},
           {<<>>}, TRUE)

SpecRepeat == InitRepeat /\ [][Next]_vars

NextAlerts ==
  \E p \in Passes :
    \/ CheckAlertsRequest(p)
    \/ CheckAlertsItem(p)
    \/ CheckAlertsRespond(p)
    \/ CheckAlertsReturn(p)

\* both reconciliation endpoints, on a deployment with the push keys set, one
\* watch item, one subscription and one alert
InitCron ==
  InitWith({e \in Environments : e.vapid}, {w \in Watchlists : Len(w) = 1},
           {<<"e1">>}, {a \in AlertLists : Len(a) = 1}, FALSE)

NextCron == Next \/ NextAlerts

SpecCron == InitCron /\ [][NextCron]_vars

\* registrations of subscriptions on a deployment with one watch item and no
\* subscription yet, and the check-prices passes that use them
InitSubscribe ==
  InitWith({e \in Environments : e.vapid /\ e.CRON_SECRET = None},
           {w \in Watchlists : Len(w) = 1}, {<<>>}, {<<>>}, FALSE)

\* no check-prices pass is running
Quiet == \A p \in Passes : pass[p].pc = "idle"

\* a pass reads the subscriptions once, when it starts, and never writes
\* them: a registration during a pass has the effect of one after it
NextSubscribe ==
  \/ Quiet /\ SubscribePost
  \/ Quiet /\ SubscribePostRedis
  \/ Next

SpecSubscribe == InitSubscribe /\ [][NextSubscribe]_vars

\* creations and deletions of watch items, from empty stores
InitWatchlist ==
  InitWith({e \in Environments : e.vapid /\ e.CRON_SECRET = None},
           {<<>>}, {<<>>}, {<<>>}, FALSE)

NextWatchlist ==
  \/ WatchlistSavePost
  \/ WatchlistPost
  \/ WatchlistDelete
  \/ SaveAlert

SpecWatchlist == InitWatchlist /\ [][NextWatchlist]_vars

\* synchronisations of the client's alerts and the check-alerts passes
NextSync == AlertsSync \/ NextAlerts

InitSync ==
  InitWith({e \in Environments : e.vapid /\ e.CRON_SECRET = None},
           {<<>>}, {<<>>}, {<<>>}, TRUE)

SpecSync == InitSync /\ [][NextSync]_vars

\* check-prices passes over two watch items and two subscriptions whose
\* endpoints may fail
InitDelivery ==
  InitWith(DeliveryEnvironments, {w \in Watchlists : Len(w) = 2},
           {<<"e1", "e2">>}, {<<>>}, FALSE)

SpecDelivery == InitDelivery /\ [][Next]_vars

\* no check-alerts pass is running
AlertQuiet == \A p \in Passes : alertPass[p].pc = "idle"

\* creations of watch items and synchronisations of alerts of both scopes, and
\* the passes that search for them; the watch items and the alerts share no
\* document and no pass, so a behaviour stores the ones or the others
InitQuery ==
  InitWith({e \in Environments : e.vapid /\ e.CRON_SECRET = None},
           {<<>>}, {<<"e1">>}, {<<>>}, FALSE)

NextQuery ==
  \/ Quiet /\ ~files.alerts.exists /\ WatchlistSavePostWith(ScopedItemBodies)
  \/ AlertQuiet /\ ~files.watchlist.exists /\ AlertsSyncWith(ScopedBodies)
  \/ AlertQuiet /\ Next
  \/ Quiet /\ NextAlerts

SpecQuery == InitQuery /\ [][NextQuery]_vars

\* two invocations of check-prices, each made once and started at any time,
\* on a deployment with one watch item and one subscription
InitOverlap ==
  /\ InitWith({e \in Environments : e.vapid /\ e.CRON_SECRET = None},
              {w \in Watchlists : Len(w) = 1}, {<<"e1">>}, {<<>>}, FALSE)!1
  /\ InitWith({e \in Environments : e.vapid /\ e.CRON_SECRET = None},
              {w \in Watchlists : Len(w) = 1}, {<<"e1">>}, {<<>>}, FALSE)!2
  /\ pass = [p \in {1, 2} |-> Idle]
  /\ alertPass = [p \in Passes |-> AlertIdle]
  /\ audit = AuditOff
  /\ redis = EmptyRedis
  /\ http = NoRequest
  /\ token = [cachedToken |-> None, tokenExpiry |-> 0, now |-> 1,
              issuedAt |-> 0, expiresIn |-> 0, last |-> NoCall]
  /\ selection = [listings |-> <<>>, lowest |-> NoListing]
  /\ tracker = [watchlist |-> <<>>, last |-> NoCheck]

NextOverlap ==
  \E p \in {1, 2} :
    \/ CheckPricesStart(p)
    \/ CheckPricesItem(p)
    \/ CheckPricesSave(p)

SpecOverlap == InitOverlap /\ [][NextOverlap]_vars

\* the endpoints that create watch items and register subscriptions, in both
\* stores, and then the pass that follows them
NextCreate ==
  \/ Quiet /\ WatchlistPost
  \/ Quiet /\ WatchlistDelete
  \/ Quiet /\ WatchlistSavePostWith(ScopedItemBodies)
  \/ Quiet /\ SubscribePost
  \/ Quiet /\ SubscribePostRedis
  \/ \E p \in Passes :
       CheckPricesRequest(p) \/ CheckPricesItem(p) \/ CheckPricesSave(p)

SpecCreate == InitWatchlist /\ [][NextCreate]_vars

\* saves and checks of the client-side tracker
NextTracker == SaveToWatchlist \/ CheckPriceChanges

SpecTracker == InitWatchlist /\ [][NextTracker]_vars

\* selections of the cheapest listing over all answers
SpecLowest == InitWatchlist /\ [][SelectLowest]_vars

\* token requests over time
NextToken == GetEbayAccessToken \/ GetEbayToken \/ Tick

SpecToken == InitWatchlist /\ [][NextToken]_vars

(***************************************************************************)
(* Vocabulary of the properties.                                           *)
(***************************************************************************)
\* pass p executes one iteration of its loop in this step
Iteration(p) ==
  /\ pass[p].pc = "loop"
  /\ pass[p].idx <= Len(pass[p].watchlistItems)
  /\ pass'[p] # pass[p]

\* pass p leaves its loop in this step (the write of the history, the response)
Ending(p) == pass[p].pc = "loop" /\ pass'[p].pc = "done"

\* the watch item an iteration of pass p is about
Current(p) == pass[p].watchlistItems[pass[p].idx]

Failed(answer) == answer.kind \in {"tokenFail", "apiError"}

Price(listing) == ParseFloat(listing.value)

\* the least price of a non-empty answer, and the first listing that has it
MinPrice(listings) ==
  CHOOSE m \in {Price(listings[i]) : i \in 1..Len(listings)} :
    \A i \in 1..Len(listings) : m <= Price(listings[i])

Cheapest(listings) ==
  listings[CHOOSE i \in 1..Len(listings) :
             /\ Price(listings[i]) = MinPrice(listings)
             /\ \A j \in 1..(i - 1) : Price(listings[j]) # MinPrice(listings)]

Count(seq, x) == Cardinality({i \in 1..Len(seq) : seq[i] = x})

TypeOK ==
  /\ \A p \in Passes : pass[p].pc \in {"idle", "loop", "done"}
  /\ \A p \in Passes : Len(pass[p].outcomes) = pass[p].idx - 1
  /\ files.history.data \in UNION {[S -> [lastNotifiedListingId : ListingIds]] : S \in SUBSET ItemIds}

(***************************************************************************)
(* C1  Idempotence.  When a pass gets from the marketplace, for a watch    *)
(* item, the very listings the previous search for that item returned, it  *)
(* sends no notification for the item and does not count it in notified.   *)
(***************************************************************************)
C1_Idempotent ==
  [][\A p \in Passes :
       Iteration(p) =>
         LET item == Current(p)
             r == pass'[p].last
         IN (audit.seen[item.id].kind = "ok" /\ r.answer = audit.seen[item.id])
              => r.pushCalls = 0 /\ pass'[p].notified = pass[p].notified]_vars

(***************************************************************************)
(* C2  First match.  An item whose cheapest returned listing costs at most *)
(* targetPrice and that has no stored NotificationRecord gets one          *)
(* sendPushNotification per subscription and a record with that listing's  *)
(* id.                                                                     *)
(***************************************************************************)
C2_FirstMatch ==
  [][\A p \in Passes :
       Iteration(p) =>
         LET item == Current(p)
             r == pass'[p].last
             l == r.answer.listings
         IN (/\ r.answer.kind = "ok" /\ Len(l) > 0
             /\ MinPrice(l) <= ToNumber(item.targetPrice)
             /\ item.id \notin DOMAIN files.history.data)
              => /\ r.pushCalls = Len(pass[p].subscriptions)
                 /\ RecordedId(pass'[p].notificationHistory, item.id) = Cheapest(l).itemId]_vars

C4_Inclusive ==
  [][\A p \in Passes :
       Iteration(p) =>
         LET item == Current(p)
             r == pass'[p].last
             l == r.answer.listings
         IN (/\ r.answer.kind = "ok" /\ Len(l) > 0
             /\ MinPrice(l) = ToNumber(item.targetPrice)
             /\ RecordedId(pass[p].notificationHistory, item.id) # Cheapest(l).itemId)
              => r.outcome = "notified" /\ r.pushCalls = Len(pass[p].subscriptions)]_vars

(***************************************************************************)
(* C5  Zero results.  An iteration whose search returns no listing sends   *)
(* nothing, leaves notified and errors as they were, and records nothing.  *)
(***************************************************************************)
C5_ZeroResults ==
  [][\A p \in Passes :
       Iteration(p) =>
         LET r == pass'[p].last
         IN (r.answer.kind = "ok" /\ Len(r.answer.listings) = 0)
              => /\ r.pushCalls = 0 /\ r.pushSends = 0
                 /\ pass'[p].notified = pass[p].notified
                 /\ pass'[p].errors = pass[p].errors
                 /\ pass'[p].notificationHistory = pass[p].notificationHistory]_vars

C5_Witness ==
  \E p \in Passes :
    /\ pass[p].pc = "loop" /\ pass[p].last.id \in ItemIds
    /\ pass[p].last.answer.kind = "ok" /\ Len(pass[p].last.answer.listings) = 0

(***************************************************************************)
(* C6  Per-item failure isolation.  An iteration whose search fails (token *)
(* or search error) appends exactly one diagnostic naming its item, sends  *)
(* nothing, and the loop goes on with the next item; the pass leaves the   *)
(* loop only after the last item, through the history write, and answers   *)
(* with the summary carrying the diagnostics when that write succeeds.     *)
(***************************************************************************)
C6_Isolation ==
  [][\A p \in Passes :
       /\ (Iteration(p) /\ Failed(pass'[p].last.answer))
            => /\ Len(pass'[p].errors) = Len(pass[p].errors) + 1
               /\ SubSeq(pass'[p].errors, 1, Len(pass[p].errors)) = pass[p].errors
               /\ pass'[p].errors[Len(pass'[p].errors)].cardName = Current(p).cardName
               /\ pass'[p].last.pushCalls = 0
               /\ pass'[p].pc = "loop"
               /\ pass'[p].idx = pass[p].idx + 1
               /\ pass'[p].watchlistItems = pass[p].watchlistItems
       /\ Ending(p)
            => /\ pass[p].idx = Len(pass[p].watchlistItems) + 1
               /\ Len(pass[p].outcomes) = Len(pass[p].watchlistItems)
               /\ pass'[p].writes = 1
               /\ \/ /\ files'.history = File(TRUE, pass[p].notificationHistory)
                     /\ pass'[p].response.kind = "summary"
                     /\ pass'[p].response.errors = pass[p].errors
                  \/ /\ files' = files
                     /\ pass'[p].response.kind = "error"]_vars

\* the first item failed, the second one was processed, the summary was sent
C6_Witness ==
  \E p \in Passes :
    /\ pass[p].pc = "done" /\ pass[p].response.kind = "summary"
    /\ Len(pass[p].watchlistItems) = 2
    /\ pass[p].outcomes[1] = "error" /\ pass[p].outcomes[2] = "notified"
    /\ Len(pass[p].response.errors) = 1
    /\ files.history.exists

(***************************************************************************)
(* C7  (as claimed)  A pass in which a token exchange failed answers with  *)
(* a top-level error and has notified nothing.                             *)
(***************************************************************************)
TokenFailures(errors) ==
  {i \in 1..Len(errors) : errors[i].cause = "Failed to get eBay token"}

C8_ReadFatal ==
  \A p \in Passes :
    pass[p].readErrors # {} => pass[p].pc = "done" /\ pass[p].response.kind = "error"

(***************************************************************************)
(* C9  Summary counts.  In a pass that reaches the loop, checked counts    *)
(* the items attempted, notified the items notified and recorded in this   *)
(* pass, errors has one entry per failed item, and notified + |errors| <=  *)
(* checked; the summary reports these for the whole watchlist.             *)
(***************************************************************************)
C9_Counts ==
  \A p \in Passes :
    /\ pass[p].pc = "loop" =>
         /\ pass[p].checked = Len(pass[p].outcomes)
         /\ pass[p].notified = Count(pass[p].outcomes, "notified")
         /\ Len(pass[p].errors) = Count(pass[p].outcomes, "error")
         /\ pass[p].notified + Len(pass[p].errors) <= pass[p].checked
         /\ \A k \in 1..Len(pass[p].outcomes) :
              pass[p].outcomes[k] = "notified"
                => pass[p].watchlistItems[k].id \in DOMAIN pass[p].notificationHistory
    /\ (pass[p].pc = "done" /\ pass[p].response.kind = "summary") =>
         /\ pass[p].response.checked = Len(pass[p].watchlistItems)
         /\ Len(pass[p].outcomes) = Len(pass[p].watchlistItems)
         /\ pass[p].response.notified = Count(pass[p].outcomes, "notified")
         /\ Len(pass[p].response.errors) = Count(pass[p].outcomes, "error")
         /\ pass[p].response.notified + Len(pass[p].response.errors) <= pass[p].response.checked
         /\ \A k \in 1..Len(pass[p].outcomes) :
              pass[p].outcomes[k] = "notified"
                => pass[p].watchlistItems[k].id \in DOMAIN files.history.data

\* a summary over two items: one notified, one failed
C9_Witness ==
  \E p \in Passes :
    /\ pass[p].pc = "done" /\ pass[p].response.kind = "summary"
    /\ pass[p].response.checked = 2 /\ pass[p].response.notified = 1
    /\ Len(pass[p].response.errors) = 1
    /\ pass[p].outcomes = <<"notified", "error">>

(***************************************************************************)
(* C10  (as claimed)  A request to check-prices or check-alerts that does  *)
(* not carry the shared secret is answered with an error and nothing is    *)
(* processed for it.                                                       *)
(***************************************************************************)
Presents(authHeader) == authHeader = "Bearer " \o Secret

C10_Unauthorized ==
  \A p \in Passes :
    /\ (pass[p].pc # "idle" /\ ~Presents(pass[p].authHeader))
         => pass[p].pc = "done" /\ pass[p].response.kind = "unauthorized"
    /\ (alertPass[p].pc # "idle" /\ ~Presents(alertPass[p].authHeader))
         => alertPass[p].pc = "done" /\ alertPass[p].response.kind = "unauthorized"

(***************************************************************************)
(* C10  (amended)  When CRON_SECRET is configured, a request whose         *)
(* Authorization header is not exactly "Bearer <CRON_SECRET>" is answered  *)
(* with 401 at once: nothing was loaded, searched, notified, counted or    *)
(* written for it, and the only step left to it is the delivery of the     *)
(* answer.  When CRON_SECRET is not configured, no request is rejected.    *)
(***************************************************************************)
C10_SecretEnforced ==
  [][\A p \in Passes :
       /\ (pass[p].pc = "idle" /\ pass'[p].pc # "idle")
            => IF env.CRON_SECRET # None /\ pass'[p].authHeader # "Bearer " \o env.CRON_SECRET
               THEN /\ pass'[p] = [Idle EXCEPT !.pc = "done",
                                      !.authHeader = pass'[p].authHeader,
                                      !.response = [NoResponse EXCEPT !.kind = "unauthorized",
                                                                      !.status = 401]]
                    /\ files' = files /\ audit' = audit
               ELSE pass'[p].response.kind # "unauthorized"
       /\ (pass[p].response.kind = "unauthorized" /\ pass'[p] # pass[p])
            => pass'[p] = Idle /\ files' = files /\ audit' = audit
       /\ (alertPass[p].pc = "idle" /\ alertPass'[p].pc # "idle")
            => IF env.CRON_SECRET # None
                    /\ alertPass'[p].authHeader # "Bearer " \o env.CRON_SECRET
               THEN /\ alertPass'[p] =
                         [AlertIdle EXCEPT !.pc = "done",
                            !.authHeader = alertPass'[p].authHeader,
                            !.response = AlertResponse("unauthorized", 401, 0, 0, <<>>)]
                    /\ files' = files
               ELSE alertPass'[p].response.kind # "unauthorized"
       /\ (alertPass[p].response.kind = "unauthorized" /\ alertPass'[p] # alertPass[p])
            => alertPass'[p] = AlertIdle /\ files' = files]_vars

\* with the secret configured, check-prices has rejected a wrong secret and
\* check-alerts a request without header, and the stored alert is still active
C10_Witness ==
  \E p, q \in Passes :
    /\ env.CRON_SECRET = Secret
    /\ pass[p].response.status = 401 /\ pass[p].authHeader = "Bearer wrong"
    /\ alertPass[q].response.status = 401 /\ alertPass[q].authHeader = "absent"
    /\ files.watchlist.exists /\ files.subscriptions.exists
    /\ files.alerts.exists /\ ~files.alerts.data[1].triggered

(***************************************************************************)
(* C11  The pass never mutates the watchlist or the subscriptions.  Every  *)
(* step of a check-prices pass leaves watchlist.json and                   *)
(* subscriptions.json as they were; the only document a pass changes is    *)
(* the notification history.                                               *)
(***************************************************************************)
C11_ReadOnly ==
  [][\A p \in Passes :
       pass'[p] # pass[p]
         => /\ files'.watchlist = files.watchlist
            /\ files'.subscriptions = files.subscriptions
            /\ files'.alerts = files.alerts]_vars

\* a pass with an error, a notified item and failed deliveries (no push keys)
\* has written the history; the two documents it read are what it loaded
C11_Witness ==
  \E p \in Passes :
    /\ pass[p].pc = "done" /\ pass[p].response.kind = "summary"
    /\ pass[p].outcomes = <<"error", "notified">>
    /\ pass[p].last.pushCalls = 2 /\ pass[p].last.pushSends = 0
    /\ files.history.exists /\ DOMAIN files.history.data = {2}
    /\ files.watchlist.data = pass[p].watchlistItems
    /\ files.subscriptions.data = pass[p].subscriptions

(***************************************************************************)
(* C12  Upsert by endpoint.  The stored subscriptions, in the file the     *)
(* pass loads and in Redis, never hold two records with the same endpoint, *)
(* and a pass that notifies calls sendPushNotification once per distinct   *)
(* endpoint.                                                               *)
(***************************************************************************)
DistinctEndpoints(subscriptions) ==
  \A i, j \in 1..Len(subscriptions) : i # j => subscriptions[i] # subscriptions[j]

C12_UpsertByEndpoint ==
  /\ DistinctEndpoints(files.subscriptions.data)
  /\ DistinctEndpoints(redis.subscriptions)
  /\ \A p \in Passes :
       pass[p].last.outcome = "notified"
         => pass[p].last.pushCalls =
              Cardinality({pass[p].subscriptions[i] : i \in 1..Len(pass[p].subscriptions)})

(***************************************************************************)
(* C13  Creation-time validation of scope.  A request to create a watch    *)
(* item, or to validate an alert, whose scope is "specific" and that lacks *)
(* setName or collectorNumber is answered with a validation error and      *)
(* changes no store; no stored watch item with scope "specific" lacks      *)
(* setName or collectorNumber.                                             *)
(***************************************************************************)
LacksPrint(body) ==
  body.scope = "specific" /\ (body.setName = None \/ body.collectorNumber = None)

C13_ScopeValidated ==
  [][/\ (http'.route \in {"watchlist/save", "watchlist", "saveAlert"}
         /\ LacksPrint(http'.body))
        => http'.status = 400 /\ files' = files /\ redis' = redis
     /\ \A i \in 1..Len(files'.watchlist.data) :
          ~LacksPrint(files'.watchlist.data[i])]_vars

(***************************************************************************)
(* C14  targetPrice invariant.  Whatever the creation and deletion         *)
(* requests were, every item of the persisted watchlist (watchlist.json    *)
(* and the Redis key) has a targetPrice that is a number greater than 0.   *)
(***************************************************************************)
PositiveNumber(v) == v.type = "number" /\ v.n # NaN /\ v.n > 0

C14_TargetPricePositive ==
  /\ \A i \in 1..Len(files.watchlist.data) :
       PositiveNumber(files.watchlist.data[i].targetPrice)
  /\ \A i \in 1..Len(redis.watchlist) :
       PositiveNumber(redis.watchlist[i].targetPrice)

(***************************************************************************)
(* C15  Token cache reuse.  After a successful exchange at time t with     *)
(* lifetime L, a token request made before t + L - 60 performs no          *)
(* exchange and returns the token of that exchange; a request made when    *)
(* no such token is valid performs an exchange and, when it succeeds,      *)
(* caches the new token with its expiry.                                   *)
(***************************************************************************)
TokenRequest == token'.last.turn # token.last.turn

StillValid(t) == t.issuedAt > 0 /\ t.now < t.issuedAt + t.expiresIn - SafetyBuffer

C15_CacheReuse ==
  [][TokenRequest =>
       IF StillValid(token)
       THEN ~token'.last.exchanged /\ token'.last.ok
       ELSE /\ token'.last.exchanged
            /\ token'.last.ok
                 => /\ token'.cachedToken = token'.last.token
                    /\ token'.tokenExpiry = token.now + token'.expiresIn - SafetyBuffer]_vars

(***************************************************************************)
(* C16  Token cache on failure.  A request whose exchange fails gives no   *)
(* token to its caller and, in getEbayAccessToken, leaves the cache empty  *)
(* with expiry 0; a token returned without an exchange is the cached one   *)
(* and its expiry is still in the future; and the request that follows a   *)
(* failed one through the same function performs an exchange.  (The two    *)
(* functions are two versions of the module, each with its own cache;      *)
(* getEbayToken never fills its own.)                                      *)
(***************************************************************************)
ExchangeFailed(call) == call.exchanged /\ ~call.ok

C16_FailureClears ==
  [][TokenRequest =>
       /\ ExchangeFailed(token'.last) => token'.last.token = None
       /\ ExchangeFailed(token'.last) /\ token'.last.fn = "getEbayAccessToken"
            => token'.cachedToken = None /\ token'.tokenExpiry = 0
       /\ ~token'.last.exchanged
            => /\ token'.last.token = token.cachedToken
               /\ token.cachedToken # None
               /\ token.tokenExpiry > token.now
       /\ ExchangeFailed(token.last) /\ token'.last.fn = token.last.fn
            => token'.last.exchanged]_vars

\* an exchange failed in getEbayAccessToken after an earlier one had succeeded
C16_Witness ==
  /\ token.last.fn = "getEbayAccessToken"
  /\ ExchangeFailed(token.last)
  /\ token.issuedAt > 0
  /\ token.now > token.issuedAt
  /\ token.cachedToken = None

(***************************************************************************)
(* C17  Alerts trigger at most once.  An alert that check-alerts has       *)
(* marked as triggered is not among the alerts of any pass that starts     *)
(* later, whatever passes and synchronisations happened in between.        *)
(***************************************************************************)
C17_TriggerOnce ==
  [][\A p \in Passes :
       alertPass[p].pc = "idle" /\ alertPass'[p].pc = "loop"
         => \A i \in 1..Len(alertPass'[p].alerts) :
              alertPass'[p].alerts[i].id \notin audit.marked]_vars

(***************************************************************************)
(* C18  check-alerts match condition.  In an iteration of a pass the alert *)
(* is stored as triggered and counted in `triggered` exactly when the      *)
(* search returned a listing whose price parses and is at most the         *)
(* alert's targetPrice, and otherwise neither the count nor the stored     *)
(* alerts change; `triggered` never exceeds `checked`, and a completed     *)
(* pass has checked every active alert it started with.                    *)
(***************************************************************************)
AlertIteration(p) ==
  alertPass[p].pc = "loop" /\ alertPass'[p].checked = alertPass[p].checked + 1

HasQualifying(answer, targetPrice) ==
  /\ answer.kind = "ok"
  /\ \E k \in 1..Len(answer.listings) :
       /\ ParseFloat(answer.listings[k].value) # NaN
       /\ JsLessEq(ParseFloat(answer.listings[k].value), ToNumber(targetPrice))

StoredTriggered(alerts, alertId) ==
  \E i \in 1..Len(alerts) : alerts[i].id = alertId /\ alerts[i].triggered

C18_MatchCondition ==
  [][\A p \in Passes :
       /\ AlertIteration(p) =>
            LET alert == alertPass[p].alerts[alertPass[p].idx]
            IN IF HasQualifying(audit'.answer, alert.targetPrice)
               THEN /\ alertPass'[p].triggered = alertPass[p].triggered + 1
                    /\ StoredTriggered(files'.alerts.data, alert.id)
               ELSE /\ alertPass'[p].triggered = alertPass[p].triggered
                    /\ files'.alerts = files.alerts
       /\ alertPass'[p].triggered <= alertPass'[p].checked
       /\ alertPass'[p].response.kind = "completed"
            => alertPass'[p].checked = Len(alertPass'[p].alerts)]_vars

(***************************************************************************)
(* C19  Single bulk write.  A check-prices pass writes the notification    *)
(* history at most once, and the history document changes only in the      *)
(* step that follows the processing of the last watch item: no iteration   *)
(* of the loop writes it, and no item is processed after the write.        *)
(***************************************************************************)
C19_SingleWrite ==
  [][/\ \A p \in Passes :
          /\ pass'[p].writes <= 1
          /\ pass'[p].writes = 1
               => /\ pass'[p].pc = "done"
                  /\ pass'[p].idx > Len(pass'[p].watchlistItems)
                  /\ pass'[p].checked = Len(pass'[p].watchlistItems)
          /\ Iteration(p) => files'.history = files.history
     /\ files'.history # files.history
          => \E p \in Passes :
               /\ pass[p].pc = "loop" /\ pass[p].idx > Len(pass[p].watchlistItems)
               /\ pass[p].writes = 0 /\ pass'[p].writes = 1
               /\ files'.history.data = pass[p].notificationHistory]_vars

\* a pass over two items that notified for both and then wrote both records
C19_Witness ==
  \E p \in Passes :
    /\ pass[p].pc = "done" /\ pass[p].writes = 1
    /\ pass[p].outcomes = <<"notified", "notified">>
    /\ files.history.exists /\ DOMAIN files.history.data = {1, 2}

(***************************************************************************)
(* C20  NotificationRecord lifecycle.  A record that is stored for a watch *)
(* item id is still stored after every step; and a record appears, or its  *)
(* lastNotifiedListingId changes, only in the write of a pass that         *)
(* notified for that item, for the listing the record then names.          *)
(***************************************************************************)
NotifiedFor(st, k) ==
  \E i \in 1..Len(st.outcomes) :
    st.outcomes[i] = "notified" /\ st.watchlistItems[i].id = k

C20_RecordLifecycle ==
  [][\A k \in ItemIds :
       LET before == files.history.data
           after == files'.history.data
       IN /\ k \in DOMAIN before => k \in DOMAIN after
          /\ (k \in DOMAIN after /\ (k \in DOMAIN before => after[k] # before[k]))
               => \E p \in Passes :
                    /\ pass'[p].writes = 1 /\ pass[p].writes = 0
                    /\ NotifiedFor(pass[p], k)
                    /\ after[k] = pass[p].notificationHistory[k]]_vars

(***************************************************************************)
(* C21  Delivery failure isolation.  In an iteration that notifies, a      *)
(* delivery is attempted for every subscription of the pass, whatever the  *)
(* other deliveries answered; each failure is logged; the iteration is not *)
(* an error of the item and the loop goes on with the next item; and a     *)
(* pass that ends with its summary has checked every item.                 *)
(***************************************************************************)
C21_DeliveryIsolation ==
  [][\A p \in Passes :
       /\ (Iteration(p) /\ pass'[p].last.outcome = "notified")
            => /\ Len(pass'[p].deliveries) = Len(pass[p].subscriptions)
               /\ \A i \in 1..Len(pass[p].subscriptions) :
                    /\ pass'[p].deliveries[i] # "notAttempted"
                    /\ env.vapid => pass'[p].deliveries[i] = env.push[pass[p].subscriptions[i]]
               /\ pass'[p].pc = "loop"
               /\ pass'[p].idx = pass[p].idx + 1
               /\ pass'[p].errors = pass[p].errors
       /\ (Ending(p) /\ pass'[p].response.kind = "summary")
            => pass'[p].checked = Len(pass[p].watchlistItems)]_vars

\* the first delivery of the first item was rejected, the second one was
\* made, and the second item was notified as well
C21_Witness ==
  \E p \in Passes :
    /\ pass[p].pc = "done" /\ pass[p].response.kind = "summary"
    /\ pass[p].outcomes = <<"notified", "notified">>
    /\ pass[p].deliveries = <<"rejected", "ok">>

(***************************************************************************)
(* C22  Minimum selection.  The listing the loop body evaluates against    *)
(* targetPrice costs no more than any listing of the answer, whatever the  *)
(* order of the answer, and it is the first listing of the answer that has *)
(* the least price.                                                        *)
(***************************************************************************)
C22_MinimumSelection ==
  Len(selection.listings) > 0
    => /\ \A i \in 1..Len(selection.listings) :
            Price(selection.lowest) <= Price(selection.listings[i])
       /\ selection.lowest = Cheapest(selection.listings)

\* three listings, the dearest first, the two others at the same price
C22_Witness ==
  /\ Len(selection.listings) = 3
  /\ Price(selection.listings[1]) = 6
  /\ Price(selection.listings[2]) = 4 /\ Price(selection.listings[3]) = 4
  /\ selection.lowest = selection.listings[2]

(***************************************************************************)
(* C23  Query construction by scope.  The query of a search is the card    *)
(* name alone unless the scope of the watch item or alert is "specific";   *)
(* for a specific watch item it is the card name followed by the set name  *)
(* and the collector number, for a specific alert the card name followed   *)
(* by those of the two it has.                                             *)
(***************************************************************************)
C23_QueryByScope ==
  [][\A p \in Passes :
       /\ Iteration(p) =>
            LET item == Current(p)
            IN pass'[p].query =
                 IF item.scope = "specific"
                 THEN <<item.cardName, item.setName, item.collectorNumber>>
                 ELSE <<item.cardName>>
       /\ AlertIteration(p) =>
            LET alert == alertPass[p].alerts[alertPass[p].idx]
            IN alertPass'[p].query =
                 IF alert.scope = "specific"
                 THEN <<alert.cardName>>
                        \o (IF alert.setName # None THEN <<alert.setName>> ELSE <<>>)
                        \o (IF alert.collectorNumber # None
                            THEN <<alert.collectorNumber>> ELSE <<>>)
                 ELSE <<alert.cardName>>]_vars

\* a watch item created with scope "any" and a set name in the body has
\* been searched by its card name alone
C23_Witness ==
  \E p \in Passes :
    /\ http.route = "watchlist/save" /\ http.status = 200
    /\ http.body.scope = "any" /\ http.body.setName # None
    /\ pass[p].pc = "loop" /\ pass[p].idx = 2
    /\ pass[p].watchlistItems[1].scope = "any"
    /\ pass[p].query = <<pass[p].watchlistItems[1].cardName>>

(***************************************************************************)
(* C24  Overlapping passes race.  Two invocations that both notify for the *)
(* same listing of the same watch item, or a record that one invocation    *)
(* created and wrote and that the stored history no longer has, are seen   *)
(* only when the two invocations overlapped.  (That both are seen when     *)
(* they overlap is stated by C24_BothNotify and C24_RecordLost.)           *)
(***************************************************************************)
Overlapped == \E p \in DOMAIN pass : pass[p].concurrent

BothNotify ==
  /\ pass[1].last.outcome = "notified" /\ pass[2].last.outcome = "notified"
  /\ pass[1].last.id = pass[2].last.id
  /\ pass[1].last.listingId = pass[2].last.listingId

RecordLost ==
  \E p \in DOMAIN pass, k \in ItemIds :
    /\ pass[p].pc = "done" /\ pass[p].response.kind = "summary"
    /\ NotifiedFor(pass[p], k)
    /\ k \notin DOMAIN files.history.data

C24_OnlyWhenOverlapping == (BothNotify \/ RecordLost) => Overlapped

\* the two outcomes of an overlap, with every read and write succeeding
C24_BothNotify ==
  /\ Overlapped /\ BothNotify
  /\ \A p \in DOMAIN pass :
       pass[p].pc = "done" /\ pass[p].response.kind = "summary" /\ pass[p].readErrors = {}

C24_RecordLost ==
  /\ Overlapped /\ RecordLost
  /\ \A p \in DOMAIN pass :
       pass[p].pc = "done" /\ pass[p].response.kind = "summary" /\ pass[p].readErrors = {}

(***************************************************************************)
(* C25  Record unchanged when nothing is notified.  For a watch item whose *)
(* iteration ended in an error, with no listing, with a cheapest listing   *)
(* that does not qualify or with the listing already recorded, the         *)
(* iteration leaves the map of the pass as it is, and the history the pass *)
(* writes has for that item what the stored history had before.            *)
(***************************************************************************)
C25_RecordUnchanged ==
  [][\A p \in Passes :
       /\ (Iteration(p) /\ pass'[p].last.outcome # "notified")
            => pass'[p].notificationHistory = pass[p].notificationHistory
       /\ (Ending(p) /\ files'.history # files.history)
            => \A i \in 1..Len(pass[p].watchlistItems) :
                 pass[p].outcomes[i] # "notified"
                   => RecordedId(files'.history.data, pass[p].watchlistItems[i].id)
                        = RecordedId(files.history.data, pass[p].watchlistItems[i].id)]_vars

C27_DeliveredBeforeRecorded ==
  [][\A p \in Passes :
       (/\ Iteration(p)
        /\ \/ pass'[p].notified > pass[p].notified
           \/ pass'[p].notificationHistory # pass[p].notificationHistory)
         => \E i \in 1..Len(pass'[p].deliveries) : pass'[p].deliveries[i] = "ok"]_vars

(***************************************************************************)
(* C28  A failed write of the history causes no duplicate.  A pass that    *)
(* notified and whose map did not reach the file answers with the          *)
(* top-level error; and a pass that starts after it, reads every document  *)
(* and gets the same answer from the marketplace does not notify again for *)
(* the item.                                                               *)
(***************************************************************************)
C28_NoDuplicateAfterFailedWrite ==
  [][\A p, q \in DOMAIN pass :
       /\ (/\ Ending(q) /\ pass[q].notified > 0
            /\ files'.history.data # pass[q].notificationHistory)
            => /\ pass'[q].response.kind = "error"
               /\ pass'[q].response.status = 500
       /\ (/\ p # q /\ Iteration(p)
            /\ pass[q].pc = "done" /\ pass[q].response.kind = "error"
            /\ pass[q].last.outcome = "notified"
            /\ ~pass[p].concurrent /\ ~pass[q].concurrent
            /\ pass[p].readErrors = {} /\ pass[q].readErrors = {}
            /\ pass'[p].last.id = pass[q].last.id
            /\ pass'[p].last.answer = pass[q].last.answer)
            => pass'[p].last.outcome # "notified"]_vars

(***************************************************************************)
(* C29  Created items and subscriptions reach the pass.  When a pass       *)
(* starts, is authorized and reads every document, and a watch item and a  *)
(* subscription have been created and not deleted, the pass enters its     *)
(* loop with every such item in its watchlist and every such subscription  *)
(* in its subscription list.                                               *)
(***************************************************************************)
C29_CreatedReachThePass ==
  [][\A p \in Passes :
       (/\ pass[p].pc = "idle" /\ pass'[p].pc # "idle"
        /\ pass'[p].response.kind # "unauthorized"
        /\ pass'[p].readErrors = {}
        /\ Len(redis.watchlist) + Len(files.watchlist.data) > 0
        /\ Len(redis.subscriptions) + Len(files.subscriptions.data) > 0)
         => /\ pass'[p].pc = "loop"
            /\ \A i \in 1..Len(files.watchlist.data) :
                 \E j \in 1..Len(pass'[p].watchlistItems) :
                   pass'[p].watchlistItems[j] = files.watchlist.data[i]
            /\ \A i \in 1..Len(redis.watchlist) :
                 \E j \in 1..Len(pass'[p].watchlistItems) :
                   /\ pass'[p].watchlistItems[j].cardName = redis.watchlist[i].cardName
                   /\ pass'[p].watchlistItems[j].targetPrice = redis.watchlist[i].targetPrice
            /\ \A i \in 1..Len(files.subscriptions.data) :
                 \E j \in 1..Len(pass'[p].subscriptions) :
                   pass'[p].subscriptions[j] = files.subscriptions.data[i]
            /\ \A i \in 1..Len(redis.subscriptions) :
                 \E j \in 1..Len(pass'[p].subscriptions) :
                   pass'[p].subscriptions[j] = redis.subscriptions[i]]_vars

(***************************************************************************)
(* C30  Client-side price-drop detection.  A check of a card saved with a  *)
(* price p > 0 against a price q returns the Price Drop alert exactly when *)
(* (p - q) / p >= 10 %, the boundary included; a check of a card that is   *)
(* not in the watchlist returns null; and a check leaves the watchlist as  *)
(* it is.  Prices are in cents: (p - q) / p >= 1/10 is 10 (p - q) >= p.    *)
(***************************************************************************)
C30_PriceDrop ==
  [][tracker'.last # tracker.last =>
       LET cardId == tracker'.last.cardId
           q == tracker'.last.newPrice
       IN /\ tracker'.watchlist = tracker.watchlist
          /\ cardId \notin DOMAIN tracker.watchlist => ~tracker'.last.alert
          /\ (cardId \in DOMAIN tracker.watchlist /\ tracker.watchlist[cardId] > 0)
               => (tracker'.last.alert
                     <=> 10 * (tracker.watchlist[cardId] - q) >= tracker.watchlist[cardId])]_vars

====
